---------------------------- MODULE Spec2Model ----------------------------
(***************************************************************************)
(* Model of ioctl.c: a report that prints the numeric values of the GPIO   *)
(* character-device ioctl request codes.                                   *)
(*                                                                         *)
(* Three parts of the source are modelled:                                 *)
(*   - the payload records (struct definitions, lines 13-66) and the C     *)
(*     layout rule that gives sizeof() of each;                            *)
(*   - the request-code macros (lines 69-80), which pack direction, size,  *)
(*     magic and command number with shifts and ORs (_IOC of               *)
(*     <linux/ioctl.h>, asm-generic layout: 8 nr bits, 8 type bits,        *)
(*     14 size bits, 2 direction bits);                                    *)
(*   - main (lines 83-96): eight printf statements, then return 0.         *)
(*                                                                         *)
(* Machine integers are bit vectors (functions from bit positions to       *)
(* {0,1}), so that shifts, ORs, widths and the %08X conversion are         *)
(* computed as the C code computes them.                                   *)
(***************************************************************************)
EXTENDS Integers, Sequences, FiniteSets

VARIABLES
    abi,     \* data model the translation unit is compiled for
    argc,    \* argc[r]: argument count run r was started with (main ignores it)
    pc,      \* pc[r]: number of printf statements run r has executed
    out,     \* out[r]: the lines run r has written to stdout
    exit,    \* exit[r]: <<>> while running, <<status>> once main returned
    phase,   \* macro evaluation: "off", "input", "sized", "encoded"
    dir,     \* macro evaluation: direction argument of _IOC
    magic,   \* macro evaluation: type (magic) argument of _IOC
    nr,      \* macro evaluation: command number argument of _IOC
    ty,      \* macro evaluation: payload type argument
    lay,     \* macro evaluation: layout of ty (sizeof, alignment, offsets)
    code     \* macro evaluation: the 32-bit request code

runVars  == <<argc, pc, out, exit>>
evalVars == <<phase, dir, magic, nr, ty, lay, code>>
vars     == <<abi, argc, pc, out, exit, phase, dir, magic, nr, ty, lay, code>>

(***************************************************************************)
(* Bounds of the model.                                                    *)
(***************************************************************************)
NumRuns == 2        \* independent executions of the report
MaxArgc == 2        \* argc ranges over 1..MaxArgc
MaxSizeWraps == 4   \* drawn payload sizes reach MaxSizeWraps * 2^14 + (2^14 - 1)

Runs == 1..NumRuns

(***************************************************************************)
(* Data models.  Every field of the payload records has a fixed-width      *)
(* kernel type, so the data model only decides the width of size_t, the    *)
(* type of sizeof().                                                       *)
(***************************************************************************)
ABIs == {"LP64", "ILP32"}

SizeTBits(a) == IF a = "LP64" THEN 64 ELSE 32

UIntBits == 32

(***************************************************************************)
(* Bit vectors.                                                            *)
(***************************************************************************)
Max(a, b) == IF a >= b THEN a ELSE b

\* The w-bit representation of n, 0 <= n < 2^31.
ToBits(n, w) == [i \in 0..(w - 1) |-> IF i > 30 THEN 0 ELSE (n \div (2 ^ i)) % 2]

\* C's v << k at the width of v: bits shifted past the top are lost.
Shl(v, k) == [i \in DOMAIN v |-> IF i >= k THEN v[i - k] ELSE 0]

\* Conversion of an unsigned value to a w-bit unsigned type.
Resize(v, w) == [i \in 0..(w - 1) |-> IF i \in DOMAIN v THEN v[i] ELSE 0]

\* C's a | b after the usual arithmetic conversions (the wider operand wins).
BitOr(a, b) ==
    LET w == Max(Cardinality(DOMAIN a), Cardinality(DOMAIN b))
        x == Resize(a, w)
        y == Resize(b, w)
    IN  [i \in 0..(w - 1) |-> IF x[i] = 1 \/ y[i] = 1 THEN 1 ELSE 0]

\* The number a bit vector represents (below 2^31).
Value(v) ==
    LET RECURSIVE Sum(_)
        Sum(i) == IF i \notin DOMAIN v THEN 0
                  ELSE (IF v[i] = 1 THEN 2 ^ i ELSE 0) + Sum(i + 1)
    IN  Sum(0)

(***************************************************************************)
(* C types and their layout.                                               *)
(***************************************************************************)
Scalar(name) == [kind |-> "scalar", name |-> name, of |-> <<>>, n |-> 0]

Field(fname, t) == [f |-> fname, t |-> t]

Array(t, count) == [kind |-> "array", name |-> "", of |-> <<Field("", t)>>, n |-> count]

Struct(tag, fields) == [kind |-> "struct", name |-> tag, of |-> fields, n |-> 0]

Union(members) == [kind |-> "union", name |-> "", of |-> members, n |-> 0]

char == Scalar("char")

u32 == Scalar("__u32")

s32 == Scalar("__s32")

aligned_u64 == Scalar("__aligned_u64")

ScalarSize(name) ==
    CASE name = "char" -> 1
      [] name = "__u32" -> 4
      [] name = "__s32" -> 4
      [] name = "__aligned_u64" -> 8

\* __aligned_u64 is __u64 __attribute__((aligned(8))) on every data model.
ScalarAlign(name) ==
    CASE name = "char" -> 1
      [] name = "__u32" -> 4
      [] name = "__s32" -> 4
      [] name = "__aligned_u64" -> 8

AlignUp(off, a) == ((off + a - 1) \div a) * a

RECURSIVE AlignOf(_)
AlignOf(t) ==
    CASE t.kind = "scalar" -> ScalarAlign(t.name)
      [] t.kind = "array" -> AlignOf(t.of[1].t)
      [] OTHER ->
           LET RECURSIVE MaxAlign(_)
               MaxAlign(k) == IF k = 0 THEN 1
                              ELSE Max(MaxAlign(k - 1), AlignOf(t.of[k].t))
           IN  MaxAlign(Len(t.of))

RECURSIVE SizeOf(_)
\* Offset just past the k-th member of a struct laid out in declaration order.
RECURSIVE EndOffset(_, _)
EndOffset(fields, k) ==
    IF k = 0 THEN 0
    ELSE AlignUp(EndOffset(fields, k - 1), AlignOf(fields[k].t)) + SizeOf(fields[k].t)

\* Offset of the k-th member of struct t.
FieldOffset(t, k) == AlignUp(EndOffset(t.of, k - 1), AlignOf(t.of[k].t))

SizeOf(t) ==
    CASE t.kind = "scalar" -> ScalarSize(t.name)
      [] t.kind = "array" -> t.n * SizeOf(t.of[1].t)
      [] t.kind = "struct" -> AlignUp(EndOffset(t.of, Len(t.of)), AlignOf(t))
      [] t.kind = "union" ->
           LET RECURSIVE MaxSize(_)
               MaxSize(k) == IF k = 0 THEN 0
                             ELSE Max(MaxSize(k - 1), SizeOf(t.of[k].t))
           IN  AlignUp(MaxSize(Len(t.of)), AlignOf(t))

\* What the compiler knows of a complete type.
Layout(t) ==
    [size    |-> SizeOf(t),
     align   |-> AlignOf(t),
     offsets |-> IF t.kind = "struct"
                 THEN [k \in 1..Len(t.of) |-> FieldOffset(t, k)]
                 ELSE <<>>]


(***************************************************************************)
(* The payload records.                                                    *)
(***************************************************************************)
GPIO_MAX_NAME_SIZE == 32

\* A line count that makes gpio_v2_line_request outgrow the size field.
GPIO_V2_LINES_MAX_Huge == 64 * 64

GPIO_V2_LINES_MAX == 64

GPIO_V2_LINE_NUM_ATTRS_MAX == 10

\* gpiochip_info with "lines" declared 64 bits wide.
gpiochip_info_WideLines ==
    Struct("gpiochip_info",
           <<Field("name", Array(char, GPIO_MAX_NAME_SIZE)),
             Field("label", Array(char, GPIO_MAX_NAME_SIZE)),
             Field("lines", aligned_u64)>>)

gpiochip_info ==
    Struct("gpiochip_info",
           <<Field("name", Array(char, GPIO_MAX_NAME_SIZE)),
             Field("label", Array(char, GPIO_MAX_NAME_SIZE)),
             Field("lines", u32)>>)

\* gpio_v2_line_attribute whose union lost its 64-bit members.
gpio_v2_line_attribute_NoWideMember ==
    Struct("gpio_v2_line_attribute",
           <<Field("id", u32),
             Field("padding", u32),
             Field("", Union(<<Field("debounce_period_us", u32)>>))>>)

gpio_v2_line_attribute ==
    Struct("gpio_v2_line_attribute",
           <<Field("id", u32),
             Field("padding", u32),
             Field("", Union(<<Field("flags", aligned_u64),
                               Field("values", aligned_u64),
                               Field("debounce_period_us", u32)>>))>>)

gpio_v2_line_config_attribute ==
    Struct("gpio_v2_line_config_attribute",
           <<Field("attr", gpio_v2_line_attribute),
             Field("mask", aligned_u64)>>)

\* gpio_v2_line_config with one padding word too few.
gpio_v2_line_config_ShortPad ==
    Struct("gpio_v2_line_config",
           <<Field("flags", aligned_u64),
             Field("num_attrs", u32),
             Field("padding", Array(u32, 4)),
             Field("attrs", Array(gpio_v2_line_config_attribute,
                                  GPIO_V2_LINE_NUM_ATTRS_MAX))>>)

gpio_v2_line_config ==
    Struct("gpio_v2_line_config",
           <<Field("flags", aligned_u64),
             Field("num_attrs", u32),
             Field("padding", Array(u32, 5)),
             Field("attrs", Array(gpio_v2_line_config_attribute,
                                  GPIO_V2_LINE_NUM_ATTRS_MAX))>>)

gpio_v2_line_request ==
    Struct("gpio_v2_line_request",
           <<Field("offsets", Array(u32, GPIO_V2_LINES_MAX)),
             Field("consumer", Array(char, GPIO_MAX_NAME_SIZE)),
             Field("config", gpio_v2_line_config),
             Field("num_lines", u32),
             Field("event_buffer_size", u32),
             Field("padding", Array(u32, 5)),
             Field("fd", s32)>>)

gpio_v2_line_info ==
    Struct("gpio_v2_line_info",
           <<Field("name", Array(char, GPIO_MAX_NAME_SIZE)),
             Field("consumer", Array(char, GPIO_MAX_NAME_SIZE)),
             Field("offset", u32),
             Field("num_attrs", u32),
             Field("flags", aligned_u64),
             Field("attrs", Array(gpio_v2_line_attribute,
                                  GPIO_V2_LINE_NUM_ATTRS_MAX)),
             Field("padding", Array(u32, 4))>>)

gpio_v2_line_values ==
    Struct("gpio_v2_line_values",
           <<Field("bits", aligned_u64),
             Field("mask", aligned_u64)>>)

StructNames ==
    {"gpiochip_info", "gpio_v2_line_attribute", "gpio_v2_line_config_attribute",
     "gpio_v2_line_config", "gpio_v2_line_request", "gpio_v2_line_info",
     "gpio_v2_line_values"}

\* The type a type name of the translation unit denotes.
Named(name) ==
    CASE name = "gpiochip_info" -> gpiochip_info
      [] name = "gpio_v2_line_attribute" -> gpio_v2_line_attribute
      [] name = "gpio_v2_line_config_attribute" -> gpio_v2_line_config_attribute
      [] name = "gpio_v2_line_config" -> gpio_v2_line_config
      [] name = "gpio_v2_line_request" -> gpio_v2_line_request
      [] name = "gpio_v2_line_info" -> gpio_v2_line_info
      [] name = "gpio_v2_line_values" -> gpio_v2_line_values
      [] OTHER -> Scalar(name)

\* A type argument of a macro: base itself (count = 0) or base[count].
CType(p) == IF p.count = 0 THEN Named(p.base) ELSE Array(Named(p.base), p.count)

Payload(name) == [base |-> name, count |-> 0]

(***************************************************************************)
(* The request-code encoding of <linux/ioctl.h>.                           *)
(***************************************************************************)
IOC_NRBITS == 8

IOC_TYPEBITS == 8

IOC_SIZEBITS == 14

IOC_DIRBITS == 2

IOC_NRSHIFT == 0

IOC_TYPESHIFT == IOC_NRSHIFT + IOC_NRBITS

\* The size field placed on top of the magic field.
IOC_SIZESHIFT_Overlap == IOC_TYPESHIFT

IOC_SIZESHIFT == IOC_TYPESHIFT + IOC_TYPEBITS

IOC_DIRSHIFT == IOC_SIZESHIFT + IOC_SIZEBITS

IOC_NONE == 0

IOC_WRITE == 1

IOC_READ == 2

\* _IOC with the size masked to its field.
IOC_MaskedSize(a, d, t, n, size) ==
    BitOr(BitOr(BitOr(Shl(ToBits(d, UIntBits), IOC_DIRSHIFT),
                      Shl(ToBits(t, UIntBits), IOC_TYPESHIFT)),
                Shl(ToBits(n, UIntBits), IOC_NRSHIFT)),
          Shl(ToBits(size % (2 ^ IOC_SIZEBITS), SizeTBits(a)), IOC_SIZESHIFT))

\* _IOC(dir,type,nr,size): dir is unsigned int, type and nr are int, size is
\* sizeof(...), a size_t.  No operand is masked to its field.
IOC(a, d, t, n, size) ==
    BitOr(BitOr(BitOr(Shl(ToBits(d, UIntBits), IOC_DIRSHIFT),
                      Shl(ToBits(t, UIntBits), IOC_TYPESHIFT)),
                Shl(ToBits(n, UIntBits), IOC_NRSHIFT)),
          Shl(ToBits(size, SizeTBits(a)), IOC_SIZESHIFT))

\* _IOR(type,nr,T) and _IOWR(type,nr,T); _IOC_READ|_IOC_WRITE is 3.
IOR(a, t, n, p) == IOC(a, IOC_READ, t, n, SizeOf(CType(p)))

IOWR(a, t, n, p) ==
    IOC(a, Value(BitOr(ToBits(IOC_READ, UIntBits), ToBits(IOC_WRITE, UIntBits))),
        t, n, SizeOf(CType(p)))

GPIO_MAGIC == 180   \* 0xB4

\* The macros with GPIO_V2_LINE_SET_VALUES_IOCTL given the command number of
\* GPIO_V2_LINE_GET_VALUES_IOCTL.
IoctlMacros_DupNr ==
    [GPIO_GET_CHIPINFO_IOCTL |->
        [io |-> "_IOR", type |-> 180, nr |-> 1, arg |-> Payload("gpiochip_info")],
     GPIO_GET_LINEINFO_UNWATCH_IOCTL |->
        [io |-> "_IOWR", type |-> 180, nr |-> 12, arg |-> Payload("__u32")],
     GPIO_V2_GET_LINEINFO_IOCTL |->
        [io |-> "_IOWR", type |-> 180, nr |-> 5, arg |-> Payload("gpio_v2_line_info")],
     GPIO_V2_GET_LINEINFO_WATCH_IOCTL |->
        [io |-> "_IOWR", type |-> 180, nr |-> 6, arg |-> Payload("gpio_v2_line_info")],
     GPIO_V2_GET_LINE_IOCTL |->
        [io |-> "_IOWR", type |-> 180, nr |-> 7, arg |-> Payload("gpio_v2_line_request")],
     GPIO_V2_LINE_SET_CONFIG_IOCTL |->
        [io |-> "_IOWR", type |-> 180, nr |-> 13, arg |-> Payload("gpio_v2_line_config")],
     GPIO_V2_LINE_GET_VALUES_IOCTL |->
        [io |-> "_IOWR", type |-> 180, nr |-> 14, arg |-> Payload("gpio_v2_line_values")],
     GPIO_V2_LINE_SET_VALUES_IOCTL |->
        [io |-> "_IOWR", type |-> 180, nr |-> 14, arg |-> Payload("gpio_v2_line_values")]]

\* The GPIO_*_IOCTL macros: which _IO* macro, command number, payload type.
IoctlMacros ==
    [GPIO_GET_CHIPINFO_IOCTL |->
        [io |-> "_IOR", type |-> GPIO_MAGIC, nr |-> 1, arg |-> Payload("gpiochip_info")],
     GPIO_GET_LINEINFO_UNWATCH_IOCTL |->
        [io |-> "_IOWR", type |-> GPIO_MAGIC, nr |-> 12, arg |-> Payload("__u32")],
     GPIO_V2_GET_LINEINFO_IOCTL |->
        [io |-> "_IOWR", type |-> GPIO_MAGIC, nr |-> 5, arg |-> Payload("gpio_v2_line_info")],
     GPIO_V2_GET_LINEINFO_WATCH_IOCTL |->
        [io |-> "_IOWR", type |-> GPIO_MAGIC, nr |-> 6, arg |-> Payload("gpio_v2_line_info")],
     GPIO_V2_GET_LINE_IOCTL |->
        [io |-> "_IOWR", type |-> GPIO_MAGIC, nr |-> 7, arg |-> Payload("gpio_v2_line_request")],
     GPIO_V2_LINE_SET_CONFIG_IOCTL |->
        [io |-> "_IOWR", type |-> GPIO_MAGIC, nr |-> 13, arg |-> Payload("gpio_v2_line_config")],
     GPIO_V2_LINE_GET_VALUES_IOCTL |->
        [io |-> "_IOWR", type |-> GPIO_MAGIC, nr |-> 14, arg |-> Payload("gpio_v2_line_values")],
     GPIO_V2_LINE_SET_VALUES_IOCTL |->
        [io |-> "_IOWR", type |-> GPIO_MAGIC, nr |-> 15, arg |-> Payload("gpio_v2_line_values")]]

\* The value a GPIO_*_IOCTL macro expands to.
Expand(a, macro) ==
    LET m == IoctlMacros[macro]
    IN  IF m.io = "_IOR" THEN IOR(a, m.type, m.nr, m.arg)
        ELSE IOWR(a, m.type, m.nr, m.arg)

(***************************************************************************)
(* printf("0x%08X <label>\n", <macro>).  %X converts an unsigned int: the  *)
(* low UIntBits bits of the argument (on LP64 the argument has type        *)
(* unsigned long, of which the conversion reads the low half).  The digits *)
(* are the value's hexadecimal digits without leading zeros, in upper      *)
(* case, padded on the left with '0' to a width of 8.                      *)
(***************************************************************************)
HexDigits == <<"0", "1", "2", "3", "4", "5", "6", "7",
               "8", "9", "A", "B", "C", "D", "E", "F">>

\* The j-th hexadecimal digit of v, counted from the least significant (j = 0).
Nibble(v, j) == v[4 * j] + 2 * v[4 * j + 1] + 4 * v[4 * j + 2] + 8 * v[4 * j + 3]

\* Number of significant hexadecimal digits of v (at least 1).
RECURSIVE HexLen(_, _)
HexLen(v, j) ==
    IF j = 0 THEN 1
    ELSE IF Nibble(v, j) # 0 THEN j + 1
    ELSE HexLen(v, j - 1)

FormatX(v, width) ==
    LET u == Resize(v, UIntBits)
        len == HexLen(u, (UIntBits \div 4) - 1)
        digits == [k \in 1..len |-> HexDigits[Nibble(u, len - k) + 1]]
        zeros == [k \in 1..Max(width - len, 0) |-> "0"]
    IN  zeros \o digits

\* main without the printf of GPIO_GET_LINEINFO_UNWATCH_IOCTL.
MainPrintfs_Seven ==
    <<[label |-> "GPIO_GET_CHIPINFO_IOCTL", macro |-> "GPIO_GET_CHIPINFO_IOCTL"],
      [label |-> "GPIO_V2_GET_LINEINFO_IOCTL", macro |-> "GPIO_V2_GET_LINEINFO_IOCTL"],
      [label |-> "GPIO_V2_GET_LINEINFO_WATCH_IOCTL", macro |-> "GPIO_V2_GET_LINEINFO_WATCH_IOCTL"],
      [label |-> "GPIO_V2_GET_LINE_IOCTL", macro |-> "GPIO_V2_GET_LINE_IOCTL"],
      [label |-> "GPIO_V2_LINE_SET_CONFIG_IOCTL", macro |-> "GPIO_V2_LINE_SET_CONFIG_IOCTL"],
      [label |-> "GPIO_V2_LINE_GET_VALUES_IOCTL", macro |-> "GPIO_V2_LINE_GET_VALUES_IOCTL"],
      [label |-> "GPIO_V2_LINE_SET_VALUES_IOCTL", macro |-> "GPIO_V2_LINE_SET_VALUES_IOCTL"]>>

\* The printf statements of main, in program order: the label in the format
\* string and the macro passed as the argument.
MainPrintfs ==
    <<[label |-> "GPIO_GET_CHIPINFO_IOCTL", macro |-> "GPIO_GET_CHIPINFO_IOCTL"],
      [label |-> "GPIO_V2_GET_LINEINFO_IOCTL", macro |-> "GPIO_V2_GET_LINEINFO_IOCTL"],
      [label |-> "GPIO_V2_GET_LINEINFO_WATCH_IOCTL", macro |-> "GPIO_V2_GET_LINEINFO_WATCH_IOCTL"],
      [label |-> "GPIO_V2_GET_LINE_IOCTL", macro |-> "GPIO_V2_GET_LINE_IOCTL"],
      [label |-> "GPIO_GET_LINEINFO_UNWATCH_IOCTL", macro |-> "GPIO_GET_LINEINFO_UNWATCH_IOCTL"],
      [label |-> "GPIO_V2_LINE_SET_CONFIG_IOCTL", macro |-> "GPIO_V2_LINE_SET_CONFIG_IOCTL"],
      [label |-> "GPIO_V2_LINE_GET_VALUES_IOCTL", macro |-> "GPIO_V2_LINE_GET_VALUES_IOCTL"],
      [label |-> "GPIO_V2_LINE_SET_VALUES_IOCTL", macro |-> "GPIO_V2_LINE_SET_VALUES_IOCTL"]>>

\* The macros are integer constant expressions: the compiler evaluates the
\* argument of each printf of main once, for the data model it compiles for.
Arguments ==
    [a \in ABIs |-> [k \in 1..Len(MainPrintfs) |-> Expand(a, MainPrintfs[k].macro)]]

\* What "%08X" makes of the argument of the k-th printf: the argument being a
\* constant, so are the digits every execution of the statement writes.
Digits ==
    [a \in ABIs |-> [k \in 1..Len(MainPrintfs) |-> FormatX(Arguments[a][k], 8)]]

\* A printf that is handed the argument count instead of the macro.
FormatLine_Argc(r, k) ==
    [prefix |-> "0x",
     hex    |-> FormatX(ToBits(argc[r], UIntBits), 8),
     name   |-> MainPrintfs[k].label]

\* The line the k-th printf of run r writes: "0x", the digits, " ", the label.
\* main has no parameters: nothing of run r's arguments enters the line.
FormatLine(r, k) ==
    [prefix |-> "0x",
     hex    |-> Digits[abi][k],
     name   |-> MainPrintfs[k].label]

(***************************************************************************)
(* Runs of main.                                                           *)
(***************************************************************************)
RunInit ==
    /\ argc \in [Runs -> 1..MaxArgc]
    /\ pc = [r \in Runs |-> 0]
    /\ out = [r \in Runs |-> <<>>]
    /\ exit = [r \in Runs |-> <<>>]

\* Run r executes its next printf statement.
Printf(r) ==
    /\ exit[r] = <<>>
    /\ pc[r] < Len(MainPrintfs)
    /\ out' = [out EXCEPT ![r] = Append(@, FormatLine(r, pc[r] + 1))]
    /\ pc' = [pc EXCEPT ![r] = @ + 1]
    /\ UNCHANGED <<abi, argc, exit>>
    /\ UNCHANGED evalVars

\* A return that may be taken before the last printf.
Return_Early(r) ==
    /\ exit[r] = <<>>
    /\ pc[r] > 0
    /\ exit' = [exit EXCEPT ![r] = <<0>>]
    /\ UNCHANGED <<abi, argc, pc, out>>
    /\ UNCHANGED evalVars

\* Run r executes "return 0".
Return(r) ==
    /\ exit[r] = <<>>
    /\ pc[r] = Len(MainPrintfs)
    /\ exit' = [exit EXCEPT ![r] = <<0>>]
    /\ UNCHANGED <<abi, argc, pc, out>>
    /\ UNCHANGED evalVars

(***************************************************************************)
(* Evaluation of sizeof and _IOC on drawn arguments.                       *)
(***************************************************************************)
SizeMax == 2 ^ IOC_SIZEBITS - 1

\* Sizes at and around the multiples of the size field's capacity.
BoundarySizes ==
    {k * (SizeMax + 1) + d : k \in 0..MaxSizeWraps, d \in {0, 1, SizeMax}} \ {0}

EvalDirs == {IOC_NONE, IOC_WRITE, IOC_READ, 3}

EvalMagics == {0, GPIO_MAGIC, 255}

EvalNrs == {0, 1, 255}

EvalTypes ==
    {Payload(n) : n \in StructNames \cup {"__u32"}}
        \cup {[base |-> "char", count |-> n] : n \in BoundarySizes}

NoLayout == [size |-> 0, align |-> 0, offsets |-> <<>>]

NoCode == ToBits(0, UIntBits)

EvalOff ==
    /\ phase = "off"
    /\ dir = IOC_NONE
    /\ magic = 0
    /\ nr = 0
    /\ ty = Payload("char")
    /\ lay = NoLayout
    /\ code = NoCode

EvalInit ==
    /\ phase = "input"
    /\ dir \in EvalDirs
    /\ magic \in EvalMagics
    /\ nr \in EvalNrs
    /\ ty \in EvalTypes
    /\ lay = NoLayout
    /\ code = NoCode

RunOff ==
    /\ argc = [r \in Runs |-> 1]
    /\ pc = [r \in Runs |-> 0]
    /\ out = [r \in Runs |-> <<>>]
    /\ exit = [r \in Runs |-> <<>>]

\* sizeof(ty): the compiler lays the type out.
Sizeof ==
    /\ phase = "input"
    /\ lay' = Layout(CType(ty))
    /\ phase' = "sized"
    /\ UNCHANGED <<abi, dir, magic, nr, ty, code>>
    /\ UNCHANGED runVars

\* _IOC(dir, magic, nr, sizeof(ty)), taken as the 32-bit request code.
Encode ==
    /\ phase = "sized"
    /\ code' = Resize(IOC(abi, dir, magic, nr, lay.size), UIntBits)
    /\ phase' = "encoded"
    /\ UNCHANGED <<abi, dir, magic, nr, ty, lay>>
    /\ UNCHANGED runVars

(***************************************************************************)
(* Specifications.                                                         *)
(***************************************************************************)
Init == abi \in ABIs /\ RunInit /\ EvalOff

Next == \E r \in Runs : Printf(r) \/ Return(r)

Spec == Init /\ [][Next]_vars

\* Every started process keeps running until main returns.
FairSpec == Spec /\ \A r \in Runs : WF_vars(Printf(r) \/ Return(r))

EvalStart == abi \in ABIs /\ EvalInit /\ RunOff

EvalNext == Sizeof \/ Encode

EvalSpec == EvalStart /\ [][EvalNext]_vars

(***************************************************************************)
(* Reading a printed line back: the value of its digits and the fields of  *)
(* a request code at the bit positions of the encoding ([31:30] direction, *)
(* [29:16] size, [15:8] magic, [7:0] command number).                      *)
(***************************************************************************)
HexVal(c) == CHOOSE d \in 0..15 : HexDigits[d + 1] = c

\* Fields of a printed value of eight digits: bits [31:30] are the top two
\* bits of digit 1, bits [29:16] the rest of digits 1..4, bits [15:8] digits
\* 5..6 and bits [7:0] digits 7..8.
LineDir(hex) == HexVal(hex[1]) \div 4

LineSize(hex) ==
    4096 * (HexVal(hex[1]) % 4) + 256 * HexVal(hex[2]) + 16 * HexVal(hex[3]) + HexVal(hex[4])

LineMagic(hex) == 16 * HexVal(hex[5]) + HexVal(hex[6])

LineNr(hex) == 16 * HexVal(hex[7]) + HexVal(hex[8])

\* Fields of a request code held as a bit vector.
Bits(v, lo, hi) == Value([i \in 0..(hi - lo) |-> v[lo + i]])

DirField(v) == Bits(v, 30, 31)

SizeField(v) == Bits(v, 16, 29)

MagicField(v) == Bits(v, 8, 15)

NrField(v) == Bits(v, 0, 7)

\* The four hexadecimal digits of n, 0 <= n < 2^16, by division.
Hex4(n) == [k \in 1..4 |-> HexDigits[((n \div (16 ^ (4 - k))) % 16) + 1]]

\* Direction code of the _IO* macro an entry is defined with.
DirOf(io) == IF io = "_IOR" THEN 2 ELSE 3

\* sizeof of the payload type of each macro.
PayloadSize == [m \in DOMAIN IoctlMacros |-> SizeOf(CType(IoctlMacros[m].arg))]

Exited(r) == exit[r] # <<>>

Names(lines) == [k \in 1..Len(lines) |-> lines[k].name]

(***************************************************************************)
(* C1.  Every line the report prints shows the packing formula             *)
(* (direction << 30) | (size << 16) | (0xB4 << 8) | command applied to the *)
(* entry's declared direction (2 for GPIO_GET_CHIPINFO_IOCTL, 3 for the    *)
(* others), its command number and the byte size of its payload type;      *)
(* GPIO_GET_CHIPINFO_IOCTL (command 1, 68 bytes) prints 0x8044B401.        *)
(***************************************************************************)
C1_Declared ==
    [GPIO_GET_CHIPINFO_IOCTL          |-> [dir |-> 2, nr |-> 1,  size |-> 68],
     GPIO_V2_GET_LINEINFO_IOCTL       |-> [dir |-> 3, nr |-> 5,  size |-> 256],
     GPIO_V2_GET_LINEINFO_WATCH_IOCTL |-> [dir |-> 3, nr |-> 6,  size |-> 256],
     GPIO_V2_GET_LINE_IOCTL           |-> [dir |-> 3, nr |-> 7,  size |-> 592],
     GPIO_GET_LINEINFO_UNWATCH_IOCTL  |-> [dir |-> 3, nr |-> 12, size |-> 4],
     GPIO_V2_LINE_SET_CONFIG_IOCTL    |-> [dir |-> 3, nr |-> 13, size |-> 272],
     GPIO_V2_LINE_GET_VALUES_IOCTL    |-> [dir |-> 3, nr |-> 14, size |-> 16],
     GPIO_V2_LINE_SET_VALUES_IOCTL    |-> [dir |-> 3, nr |-> 15, size |-> 16]]

\* The formula's value as digits: its high half is dir * 2^14 + size, its low
\* half 0xB4 * 2^8 + nr.
C1_Packed(d) == Hex4(d.dir * (2 ^ 14) + d.size) \o Hex4(180 * (2 ^ 8) + d.nr)

C1_PrintedValueIsPackingFormula ==
    \A r \in Runs : \A k \in 1..Len(out[r]) :
        LET line == out[r][k]
        IN  /\ line.prefix = "0x"
            /\ line.name \in DOMAIN C1_Declared
            /\ line.hex = C1_Packed(C1_Declared[line.name])
            /\ (line.name = "GPIO_GET_CHIPINFO_IOCTL"
                   => line.hex = <<"8", "0", "4", "4", "B", "4", "0", "1">>)

C1_Witness ==
    \E r \in Runs :
        /\ Len(out[r]) = 8
        /\ \E k \in 1..8 : /\ out[r][k].name = "GPIO_GET_CHIPINFO_IOCTL"
                           /\ out[r][k].hex = <<"8", "0", "4", "4", "B", "4", "0", "1">>
        /\ \E k \in 1..8 : out[r][k].name = "GPIO_GET_LINEINFO_UNWATCH_IOCTL"

(***************************************************************************)
(* C2 as stated: a finished run has produced exactly 7 lines.              *)
(***************************************************************************)
C2_SevenLines ==
    \A r \in Runs : Exited(r) => Len(out[r]) = 7

C2_Labels ==
    {"GPIO_GET_CHIPINFO_IOCTL", "GPIO_V2_GET_LINEINFO_IOCTL",
     "GPIO_V2_GET_LINEINFO_WATCH_IOCTL", "GPIO_V2_GET_LINE_IOCTL",
     "GPIO_GET_LINEINFO_UNWATCH_IOCTL", "GPIO_V2_LINE_SET_CONFIG_IOCTL",
     "GPIO_V2_LINE_GET_VALUES_IOCTL", "GPIO_V2_LINE_SET_VALUES_IOCTL"}

(***************************************************************************)
(* C2, amended.  A run produces exactly 8 lines, each labelled with one of *)
(* the 8 GPIO_*_IOCTL names the source defines: never more than 8 lines,   *)
(* exactly 8 once main has returned, and no label outside the eight.       *)
(***************************************************************************)
C2_EightLines ==
    /\ Cardinality(C2_Labels) = 8
    /\ \A r \in Runs :
        /\ Len(out[r]) <= 8
        /\ Exited(r) => Len(out[r]) = 8
        /\ \A k \in 1..Len(out[r]) : out[r][k].name \in C2_Labels

C2_Witness ==
    \E r \in Runs : Exited(r) /\ Len(out[r]) = 8 /\ argc[r] = 1

(***************************************************************************)
(* C3.  Every run terminates with exit status 0, after printing every      *)
(* entry of the fixed list exactly once and in the fixed order; no other   *)
(* exit status is reachable, no run exits early, and nothing is printed    *)
(* after termination.                                                      *)
(***************************************************************************)
C3_Order ==
    <<"GPIO_GET_CHIPINFO_IOCTL", "GPIO_V2_GET_LINEINFO_IOCTL",
      "GPIO_V2_GET_LINEINFO_WATCH_IOCTL", "GPIO_V2_GET_LINE_IOCTL",
      "GPIO_GET_LINEINFO_UNWATCH_IOCTL", "GPIO_V2_LINE_SET_CONFIG_IOCTL",
      "GPIO_V2_LINE_GET_VALUES_IOCTL", "GPIO_V2_LINE_SET_VALUES_IOCTL">>

C3_TerminatesAfterFixedOrder ==
    /\ <>(\A r \in Runs : exit[r] = <<0>>)
    /\ [](\A r \in Runs : exit[r] \in {<<>>, <<0>>})
    /\ [](\A r \in Runs : Exited(r) => Names(out[r]) = C3_Order)
    /\ [][\A r \in Runs : Exited(r) => out'[r] = out[r] /\ exit'[r] = exit[r]]_vars

C3_Witness ==
    \A r \in Runs : exit[r] = <<0>> /\ Names(out[r]) = C3_Order

C5_ConfigAttributeIsAttributePlus8 ==
    /\ (phase # "input" /\ ty = Payload("gpio_v2_line_attribute"))
           => (lay.size = 16 /\ lay.align = 8)
    /\ (phase # "input" /\ ty = Payload("gpio_v2_line_config_attribute"))
           => /\ lay.size = 24
              /\ lay.align = 8
              /\ lay.size = SizeOf(gpio_v2_line_attribute) + 8

C5_Witness ==
    /\ phase = "sized"
    /\ ty = Payload("gpio_v2_line_config_attribute")
    /\ lay.size = 24

C6_Or2(a, b) == Max(a % 2, b % 2) + 2 * Max(a \div 2, b \div 2)

C7_CatalogInputsInRange ==
    \A r \in Runs : \A k \in 1..Len(out[r]) :
        LET m == IoctlMacros[MainPrintfs[k].macro]
            size == PayloadSize[MainPrintfs[k].macro]
            arg == Arguments[abi][k]
            hex == out[r][k].hex
        IN  /\ size \in 0..16383
            /\ m.type \in 0..255
            /\ m.nr \in 0..255
            /\ m.io \in {"_IOR", "_IOWR"}
            /\ DirOf(m.io) \in 0..3
            /\ \A i \in DOMAIN arg : i >= 32 => arg[i] = 0
            /\ Len(hex) = 8
            /\ LineDir(hex) = DirOf(m.io)
            /\ LineSize(hex) = size

C7_Witness ==
    \E r \in Runs : \E k \in 1..Len(out[r]) :
        /\ MainPrintfs[k].macro = "GPIO_V2_GET_LINE_IOCTL"
        /\ LineSize(out[r][k].hex) = 592
        /\ abi = "LP64"

(***************************************************************************)
(* C8.  The command numbers of the entries defined under magic 0xB4 are    *)
(* pairwise distinct, hence so are the printed codes, also of the entries  *)
(* that share payload type and direction.                                  *)
(***************************************************************************)
C8_CodesPairwiseDistinct ==
    /\ \A m1, m2 \in DOMAIN IoctlMacros :
          m1 # m2 => IoctlMacros[m1].nr # IoctlMacros[m2].nr
    /\ \A r \in Runs : \A i, j \in 1..Len(out[r]) :
          i < j => /\ out[r][i].hex # out[r][j].hex
                   /\ LineNr(out[r][i].hex) # LineNr(out[r][j].hex)

C8_Witness ==
    \E r \in Runs : \E i, j, k, l \in 1..Len(out[r]) :
        /\ out[r][i].name = "GPIO_V2_LINE_GET_VALUES_IOCTL"
        /\ out[r][j].name = "GPIO_V2_LINE_SET_VALUES_IOCTL"
        /\ LineSize(out[r][i].hex) = LineSize(out[r][j].hex)
        /\ out[r][k].name = "GPIO_V2_GET_LINEINFO_IOCTL"
        /\ out[r][l].name = "GPIO_V2_GET_LINEINFO_WATCH_IOCTL"
        /\ LineSize(out[r][k].hex) = LineSize(out[r][l].hex)

(***************************************************************************)
(* C9.  No payload record holds implicit padding: each one's size is the   *)
(* sum of the sizes of its declared fields (68, 16, 24, 272, 592, 256 and  *)
(* 16 bytes), every field holding a 64-bit value sits at a multiple of 8,  *)
(* and the size of a record holding one is a multiple of 8.                *)
(***************************************************************************)
C9_Expected ==
    [gpiochip_info                 |-> 68,
     gpio_v2_line_attribute        |-> 16,
     gpio_v2_line_config_attribute |-> 24,
     gpio_v2_line_config           |-> 272,
     gpio_v2_line_request          |-> 592,
     gpio_v2_line_info             |-> 256,
     gpio_v2_line_values           |-> 16]

\* Whether a type holds a 64-bit field, directly or nested.
RECURSIVE C9_Has64(_)
C9_Has64(t) ==
    IF t.kind = "scalar" THEN t.name = "__aligned_u64"
    ELSE \E k \in 1..Len(t.of) : C9_Has64(t.of[k].t)

\* Sum of the sizes of the first k declared fields of t.
RECURSIVE C9_FieldSum(_, _)
C9_FieldSum(t, k) == IF k = 0 THEN 0 ELSE C9_FieldSum(t, k - 1) + SizeOf(t.of[k].t)

C9_NoImplicitPadding ==
    (phase # "input" /\ ty.count = 0 /\ ty.base \in StructNames) =>
        LET t == CType(ty)
        IN  /\ lay.size = C9_Expected[ty.base]
            /\ lay.size = C9_FieldSum(t, Len(t.of))
            /\ Len(lay.offsets) = Len(t.of)
            /\ \A k \in 1..Len(t.of) :
                  /\ lay.offsets[k] = C9_FieldSum(t, k - 1)
                  /\ C9_Has64(t.of[k].t) => lay.offsets[k] % 8 = 0
            /\ C9_Has64(t) => lay.size % 8 = 0

C9_Witness ==
    /\ phase = "sized"
    /\ ty = Payload("gpio_v2_line_request")
    /\ lay.size = 592
    /\ lay.offsets[3] = 288

(***************************************************************************)
(* C10.  Every printed code decodes losslessly: bits [31:30], [29:16],     *)
(* [15:8] and [7:0] of the printed value are the direction, payload size,  *)
(* magic 0xB4 and command number of the entry the line is labelled with.   *)
(***************************************************************************)
C10_PrintedCodeDecodes ==
    \A r \in Runs : \A k \in 1..Len(out[r]) :
        LET line == out[r][k]
            m == IoctlMacros[line.name]
        IN  /\ Len(line.hex) = 8
            /\ LineDir(line.hex) = DirOf(m.io)
            /\ LineSize(line.hex) = PayloadSize[line.name]
            /\ LineMagic(line.hex) = 180
            /\ LineNr(line.hex) = m.nr

C10_Witness ==
    \E r \in Runs : \E k \in 1..Len(out[r]) :
        LET hex == out[r][k].hex
        IN  /\ out[r][k].name = "GPIO_V2_LINE_SET_CONFIG_IOCTL"
            /\ LineDir(hex) = 3 /\ LineSize(hex) = 272 /\ LineMagic(hex) = 180 /\ LineNr(hex) = 13
=============================================================================
